---------------------------- MODULE Spec2Model ----------------------------
(***************************************************************************)
(* The paginated story-fetching flow of the Hacker News reader:            *)
(*   - the story thunks of src/store/story/actions.js (listed in           *)
(*     src/README.md, lines 360-404),                                      *)
(*   - the App container of src/components/App/index.js,                   *)
(*   - the story reducer, the hasMoreStories selector and the API client   *)
(*     (src/store/story/reducer.js, selectors.js, services/hackerNewsApi.js)*)
(*     which the repository shows only as pictures: they are modelled from *)
(*     the prose that describes them.                                      *)
(*                                                                         *)
(* The store is updated only through serialized dispatch; every promise    *)
(* callback and every UI callback runs to completion, so each is one       *)
(* action.  React re-renders App some time after the store has changed:    *)
(* the fetchStories callback and the hasMore prop that InfiniteScroll      *)
(* holds are those of the last render (variable props).                    *)
(***************************************************************************)
EXTENDS Integers, Sequences, FiniteSets, TLC

VARIABLES
    story,      \* state.story of the Redux store
    props,      \* what the last render of App read from the store
    mounted,    \* whether App's mount effect has run
    idsReq,     \* the top-stories listing request: "none", "pending", "resolved", "rejected"
    reqs,       \* every getStoriesByPage call made so far, in call order
    log,        \* every action record dispatched to the store, in dispatch order
    arrival,    \* the order in which the detail responses of the last resolved page fetch arrived
    listings    \* the number of getTopStoryIds calls made so far

vars == <<story, props, mounted, idsReq, reqs, log, arrival, listings>>

----------------------------------------------------------------------------
(* Bounds of the model *)

\* longest top-stories listing the API returns
MaxIds == 41

\* most getStoriesByPage calls in one run
MaxRequests == 3

\* longest slice whose detail responses are taken in every arrival order
MaxPermLen == 3

(* Program constants *)

\* items per page
PAGE_LIMIT == 20

----------------------------------------------------------------------------
(* Values *)

Min(a, b) == IF a < b THEN a ELSE b
Max(a, b) == IF a > b THEN a ELSE b

\* The id at rank i (1-based) of the listing: distinct and not in numeric order.
IdAt(i) == ((i * 37) % 101) + 1

\* GET /v0/topstories.json: an ordered listing of n distinct ids.
TopStoryIds(n) == [i \in 1..n |-> IdAt(i)]

\* GET /v0/item/{id}.json: the story detail object of one id.
getStory(id) == [id |-> id, by |-> "user", score |-> id % 7, kids |-> <<>>]

\* The errors a rejected request carries.
Errors == {[message |-> "Network Error"], [message |-> "Request failed with status code 500"]}

\* actionTypes
FETCH_STORY_IDS_REQUEST == "@hnReader/story/FETCH_STORY_IDS_REQUEST"
FETCH_STORY_IDS_SUCCESS == "@hnReader/story/FETCH_STORY_IDS_SUCCESS"
FETCH_STORY_IDS_FAILURE == "@hnReader/story/FETCH_STORY_IDS_FAILURE"
FETCH_STORIES_REQUEST == "@hnReader/story/FETCH_STORIES_REQUEST"
FETCH_STORIES_SUCCESS == "@hnReader/story/FETCH_STORIES_SUCCESS"
FETCH_STORIES_FAILURE == "@hnReader/story/FETCH_STORIES_FAILURE"

\* const action = (type, payload) => ({ type, payload })
action(type, payload) == [type |-> type, payload |-> payload]

\* The payload of fetchStoryIds(): payload = {} by default.
EmptyPayload == [none |-> TRUE]

----------------------------------------------------------------------------
(* The API client *)

\* Array.prototype.slice(begin, end) on a 0-based array, for 0 <= begin <= end.
slice(arr, begin, end) ==
    LET b == Min(begin, Len(arr))
        e == Min(end, Len(arr))
    IN  IF b >= e THEN <<>> ELSE SubSeq(arr, b + 1, e)

\* getStoriesByPage(ids, page): the ids whose detail is requested, one request each.
getStoriesByPage(ids, page) ==
    slice(ids, page * PAGE_LIMIT, page * PAGE_LIMIT + PAGE_LIMIT)

\* The orders in which the responses to n detail requests can arrive, each a
\* sequence of request positions: every order for a short slice, and for a
\* longer one the request order, its reverse and its two rotations by one.
Arrivals(n) ==
    IF n <= MaxPermLen
    THEN {f \in [1..n -> 1..n] : \A a, b \in 1..n : a # b => f[a] # f[b]}
    ELSE {[j \in 1..n |-> j],
          [j \in 1..n |-> n + 1 - j],
          [j \in 1..n |-> (j % n) + 1],
          [j \in 1..n |-> ((j + n - 2) % n) + 1]}

\* Promise.all while the responses come in: the response to the request at
\* position Head(arrived) is stored at that position of the result array.
RECURSIVE settle(_, _, _)
settle(results, ids, arrived) ==
    IF arrived = <<>> THEN results
    ELSE settle([results EXCEPT ![Head(arrived)] = getStory(ids[Head(arrived)])],
                ids, Tail(arrived))

\* Promise.all collecting the responses in the order they arrive.
joinStories_arrivalOrder(ids, arrived) ==
    [j \in 1..Len(arrived) |-> getStory(ids[arrived[j]])]

\* Promise.all over the detail requests of ids, one per id, whose responses
\* arrive in the order arrived: the array Promise.all resolves with.
joinStories(ids, arrived) ==
    settle([k \in 1..Len(ids) |-> [unsettled |-> TRUE]], ids, arrived)

----------------------------------------------------------------------------
(* The story reducer *)

getInitialState ==
    [storyIds |-> <<>>, stories |-> <<>>, page |-> 0, isFetching |-> FALSE, error |-> ""]

\* One dispatch.  FETCH_STORIES_SUCCESS spreads payload.stories behind the
\* stories held; a payload without stories (an Error) makes the spread throw a
\* TypeError, and a reducer that throws leaves the store as it was.
reducer(state, a) ==
    CASE a.type \in {FETCH_STORY_IDS_REQUEST, FETCH_STORIES_REQUEST} ->
            [state EXCEPT !.isFetching = TRUE]
      [] a.type = FETCH_STORY_IDS_SUCCESS ->
            [state EXCEPT !.storyIds = a.payload.storyIds]
      [] a.type = FETCH_STORIES_SUCCESS ->
            IF "stories" \in DOMAIN a.payload
            THEN [state EXCEPT !.stories = state.stories \o a.payload.stories,
                               !.page = state.page + 1,
                               !.isFetching = FALSE]
            ELSE state
      [] a.type \in {FETCH_STORY_IDS_FAILURE, FETCH_STORIES_FAILURE} ->
            [state EXCEPT !.isFetching = FALSE, !.error = a.payload.message]
      [] OTHER -> state

\* store.dispatch of a run of action records, one after the other.
RECURSIVE dispatchAll(_, _)
dispatchAll(state, acts) ==
    IF acts = <<>> THEN state
    ELSE dispatchAll(reducer(state, Head(acts)), Tail(acts))

\* hasMoreStoriesSelector(state): the stories array is shorter than storyIds.
hasMoreStoriesSelector(state) == Len(state.stories) < Len(state.storyIds)

----------------------------------------------------------------------------
(* The thunks of actions.js: what each step dispatches and requests.       *)
(* acts: the action records dispatched, in order; calls: the               *)
(* getStoriesByPage calls made.                                            *)

\* fetchStories with the API called for the page after the one asked for.
fetchStories_nextPage(payload) ==
    [acts  |-> <<action(FETCH_STORIES_REQUEST, payload)>>,
     calls |-> <<[storyIds |-> payload.storyIds,
                  page |-> payload.page,
                  ids |-> getStoriesByPage(payload.storyIds, payload.page + 1),
                  status |-> "pending"]>>]

\* actions.fetchStories(payload), up to the API call: the request action, then
\* getStoriesByPage(storyIds, page) with the payload's storyIds and page.
fetchStories(payload) ==
    [acts  |-> <<action(FETCH_STORIES_REQUEST, payload)>>,
     calls |-> <<[storyIds |-> payload.storyIds,
                  page |-> payload.page,
                  ids |-> getStoriesByPage(payload.storyIds, payload.page),
                  status |-> "pending"]>>]

\* The then of fetchStories dispatching its success event twice.
fetchStoriesThen_twice(stories) ==
    [acts  |-> <<action(FETCH_STORIES_SUCCESS, [stories |-> stories]),
                 action(FETCH_STORIES_SUCCESS, [stories |-> stories])>>,
     calls |-> <<>>]

\* The then of fetchStories dispatching the listing's success event with the
\* ids of the page's stories.
fetchStoriesThen_idsType(stories) ==
    [acts  |-> <<action(FETCH_STORY_IDS_SUCCESS,
                        [storyIds |-> [k \in 1..Len(stories) |-> stories[k].id]])>>,
     calls |-> <<>>]

\* .then(stories => dispatch(FETCH_STORIES_SUCCESS, { stories }))
fetchStoriesThen(stories) ==
    [acts  |-> <<action(FETCH_STORIES_SUCCESS, [stories |-> stories])>>,
     calls |-> <<>>]

\* The catch of fetchStories dispatching a success that carries no stories.
fetchStoriesCatch_emptySuccess(err) ==
    [acts  |-> <<action(FETCH_STORIES_SUCCESS, [stories |-> <<>>])>>,
     calls |-> <<>>]

\* .catch(err => dispatch(FETCH_STORIES_SUCCESS, err))
fetchStoriesCatch(err) ==
    [acts  |-> <<action(FETCH_STORIES_SUCCESS, err)>>,
     calls |-> <<>>]

\* fetchStoryIds asking for the listing a second time straight away.
fetchStoryIds_twice(payload) ==
    [acts  |-> <<action(FETCH_STORY_IDS_REQUEST, payload)>>,
     calls |-> <<>>,
     listings |-> 2]

\* actions.fetchStoryIds(payload), up to the API call: the request action, then
\* one getTopStoryIds call.
fetchStoryIds(payload) ==
    [acts  |-> <<action(FETCH_STORY_IDS_REQUEST, payload)>>,
     calls |-> <<>>,
     listings |-> 1]

\* The then of fetchStoryIds starting the first page before storing the ids.
fetchStoryIdsThen_requestFirst(storyIds) ==
    LET first == fetchStories([storyIds |-> storyIds, page |-> 0])
    IN  [acts  |-> first.acts \o <<action(FETCH_STORY_IDS_SUCCESS, [storyIds |-> storyIds])>>,
         calls |-> first.calls]

\* .then(storyIds => { dispatch(FETCH_STORY_IDS_SUCCESS); dispatch(fetchStories(page 0)) })
fetchStoryIdsThen(storyIds) ==
    LET first == fetchStories([storyIds |-> storyIds, page |-> 0])
    IN  [acts  |-> <<action(FETCH_STORY_IDS_SUCCESS, [storyIds |-> storyIds])>> \o first.acts,
         calls |-> first.calls]

\* The catch of fetchStoryIds going on to the first page all the same.
fetchStoryIdsCatch_thenFetch(err) ==
    LET first == fetchStories([storyIds |-> <<>>, page |-> 0])
    IN  [acts  |-> <<action(FETCH_STORY_IDS_FAILURE, err)>> \o first.acts,
         calls |-> first.calls]

\* .catch(err => dispatch(FETCH_STORY_IDS_FAILURE, err))
fetchStoryIdsCatch(err) ==
    [acts  |-> <<action(FETCH_STORY_IDS_FAILURE, err)>>,
     calls |-> <<>>]

----------------------------------------------------------------------------
(* The App container *)

\* A render of App that shows "more" whenever no fetch is running.
Rendered_moreWhenIdle(state) ==
    [stories |-> state.stories,
     page |-> state.page,
     storyIds |-> state.storyIds,
     isFetching |-> state.isFetching,
     hasMoreStories |-> ~state.isFetching]

\* What a render of App reads from the store with useSelector.
Rendered(state) ==
    [stories |-> state.stories,
     page |-> state.page,
     storyIds |-> state.storyIds,
     isFetching |-> state.isFetching,
     hasMoreStories |-> hasMoreStoriesSelector(state)]

\* const fetchStories = () => { if (!isFetching) dispatch(...) }, over the
\* values of the render that created it.
AppFetchStories(p) ==
    IF ~p.isFetching
    THEN fetchStories([storyIds |-> p.storyIds, page |-> p.page])
    ELSE [acts |-> <<>>, calls |-> <<>>]

----------------------------------------------------------------------------
(* The state machine *)

\* The effect of one callback: its dispatches reach the store, its calls go out.
Run(step) ==
    /\ story' = dispatchAll(story, step.acts)
    /\ log' = log \o step.acts
    /\ reqs' = reqs \o step.calls

Init ==
    /\ story = getInitialState
    /\ props = Rendered(getInitialState)
    /\ mounted = FALSE
    /\ idsReq = "none"
    /\ reqs = <<>>
    /\ log = <<>>
    /\ arrival = <<>>
    /\ listings = 0

\* useEffect(() => { dispatch(actions.fetchStoryIds()) }, [dispatch])
Mount ==
    /\ ~mounted
    /\ mounted' = TRUE
    /\ idsReq' = "pending"
    /\ Run(fetchStoryIds(EmptyPayload))
    /\ listings' = listings + fetchStoryIds(EmptyPayload).listings
    /\ UNCHANGED <<props, arrival>>

\* The listing request resolves with n ids.
IdsResolve ==
    /\ idsReq = "pending"
    /\ \E n \in 0..MaxIds :
          Run(fetchStoryIdsThen(TopStoryIds(n)))
    /\ idsReq' = "resolved"
    /\ UNCHANGED <<props, mounted, arrival, listings>>

\* The listing request rejects.
IdsReject ==
    /\ idsReq = "pending"
    /\ \E err \in Errors : Run(fetchStoryIdsCatch(err))
    /\ idsReq' = "rejected"
    /\ UNCHANGED <<props, mounted, arrival, listings>>

\* React re-renders App from the store.
Render ==
    /\ props # Rendered(story)
    /\ props' = Rendered(story)
    /\ UNCHANGED <<story, mounted, idsReq, reqs, log, arrival, listings>>

\* InfiniteScroll reaches the bottom with hasMore set and calls next().
Scroll ==
    /\ props.hasMoreStories
    /\ AppFetchStories(props).acts # <<>>
    /\ Len(reqs) < MaxRequests
    /\ Run(AppFetchStories(props))
    /\ UNCHANGED <<props, mounted, idsReq, arrival, listings>>

\* Every detail request of call i resolved, in some order: Promise.all resolves.
PageResolve ==
    \E i \in DOMAIN reqs :
        /\ reqs[i].status = "pending"
        /\ \E arrived \in Arrivals(Len(reqs[i].ids)) :
             LET step == fetchStoriesThen(joinStories(reqs[i].ids, arrived))
             IN  /\ story' = dispatchAll(story, step.acts)
                 /\ log' = log \o step.acts
                 /\ arrival' = arrived
        /\ reqs' = [reqs EXCEPT ![i].status = "resolved"]
        /\ UNCHANGED <<props, mounted, idsReq, listings>>

\* Some detail request of call i rejected: Promise.all rejects.
PageReject ==
    \E i \in DOMAIN reqs :
        /\ reqs[i].status = "pending"
        /\ reqs[i].ids # <<>>
        /\ \E err \in Errors :
             LET step == fetchStoriesCatch(err)
             IN  /\ story' = dispatchAll(story, step.acts)
                 /\ log' = log \o step.acts
        /\ reqs' = [reqs EXCEPT ![i].status = "rejected"]
        /\ UNCHANGED <<props, mounted, idsReq, arrival, listings>>

Next ==
    \/ Mount
    \/ IdsResolve
    \/ IdsReject
    \/ Render
    \/ Scroll
    \/ PageResolve
    \/ PageReject

Spec == Init /\ [][Next]_vars

----------------------------------------------------------------------------
(* Helpers of the properties *)

Last(seq) == seq[Len(seq)]

\* The ids at the 0-based positions [20p, 20p+20) of ids that exist.
Window(ids, p) ==
    [k \in 1..Min(PAGE_LIMIT, Max(0, Len(ids) - PAGE_LIMIT * p)) |-> ids[PAGE_LIMIT * p + k]]

Pending == {i \in DOMAIN reqs : reqs[i].status = "pending"}
Resolved == {i \in DOMAIN reqs : reqs[i].status = "resolved"}
Rejected == {i \in DOMAIN reqs : reqs[i].status = "rejected"}

\* A step in which getStoriesByPage call i rejects.
PageRejects(i) ==
    /\ i \in DOMAIN reqs
    /\ reqs[i].status = "pending"
    /\ reqs' = [reqs EXCEPT ![i].status = "rejected"]

\* A step in which the listing request rejects.
IdsRejects == idsReq = "pending" /\ idsReq' = "rejected"

\* The page indices a window is checked for, beyond those the program asks for.
MaxPage == 3

----------------------------------------------------------------------------
(* Properties *)

\* C1: every page fetch issues detail requests for exactly the ids at positions
\* [20p, 20p+20) of the list it was given, clamped to the list's length:
\* min(20, max(0, len - 20p)) requests and none outside the window; the same
\* holds of the page function for every page index and every listing.
C1_PageFetchRequestsWindow ==
    /\ \A i \in DOMAIN reqs :
          /\ reqs[i].ids = Window(reqs[i].storyIds, reqs[i].page)
          /\ Len(reqs[i].ids) =
                Min(PAGE_LIMIT, Max(0, Len(reqs[i].storyIds) - PAGE_LIMIT * reqs[i].page))
    /\ log = <<>> =>    \* a fact of the page function alone: looked at once, at the start
          \A n \in 0..MaxIds, p \in 0..MaxPage :
              getStoriesByPage(TopStoryIds(n), p) = Window(TopStoryIds(n), p)

\* C1 witness: a fetch of page 1 was made whose window is cut short by the end of the list.
C1_Witness ==
    \E i \in DOMAIN reqs :
        /\ reqs[i].page = 1
        /\ Len(reqs[i].ids) \in 1..(PAGE_LIMIT - 1)
        /\ reqs[i].ids[1] = reqs[i].storyIds[PAGE_LIMIT + 1]

\* C2: stories is a prefix of the ranked listing: stories[i].id = storyIds[i]
\* for every i up to the length of stories.
C2_StoriesPrefixOfListing ==
    \A i \in DOMAIN story.stories :
        /\ i <= Len(story.storyIds)
        /\ story.stories[i].id = story.storyIds[i]

\* C3: no page index is requested more than once and at most one page fetch is
\* in flight at any time.
C3_NoDuplicatePageFetch ==
    /\ \A i, j \in DOMAIN reqs : i # j => reqs[i].page # reqs[j].page
    /\ Cardinality(Pending) <= 1

\* C4: isFetching implies that a request (listing or page) is outstanding.
C4_FetchingOnlyWhileOutstanding ==
    story.isFetching => (idsReq = "pending" \/ Pending # {})

\* C5: page equals the number of page fetches that have succeeded (0 at first).
C5_PageCountsSuccesses ==
    story.page = Cardinality(Resolved)

\* C5 witness: two page fetches succeeded and one failed.
C5_Witness ==
    /\ story.page = 2
    /\ Rejected # {}

\* C6: when a page fetch fails, the fetch is marked complete (isFetching
\* becomes false) and stories is left as it was.
C6_FailedPageMarkedComplete ==
    [][\A i \in DOMAIN reqs :
          PageRejects(i) => (~story'.isFetching /\ story'.stories = story.stories)]_vars

\* C7: a rejected listing request dispatches FETCH_STORY_IDS_FAILURE with the
\* error, and a rejected page fetch dispatches FETCH_STORIES_FAILURE with the
\* error, never a success event.
C7_FailureDispatchesFailureEvent ==
    [][/\ IdsRejects =>
            /\ Len(log') = Len(log) + 1
            /\ Last(log').type = FETCH_STORY_IDS_FAILURE
            /\ Last(log').payload \in Errors
       /\ \A i \in DOMAIN reqs :
            PageRejects(i) =>
               /\ Len(log') = Len(log) + 1
               /\ Last(log').type = FETCH_STORIES_FAILURE
               /\ Last(log').payload \in Errors]_vars

\* C8: once the listing request has failed, storyIds and stories are empty, no
\* FETCH_STORIES_REQUEST has been dispatched and no page fetch has been made.
C8_FailedListingTriggersNoPage ==
    idsReq = "rejected" =>
        /\ story.storyIds = <<>>
        /\ story.stories = <<>>
        /\ reqs = <<>>
        /\ \A k \in DOMAIN log : log[k].type # FETCH_STORIES_REQUEST

\* C8 witness: the listing request failed, the failure event is the last one
\* dispatched and the view has been rendered since.
C8_Witness ==
    /\ idsReq = "rejected"
    /\ Last(log).type = FETCH_STORY_IDS_FAILURE
    /\ props = Rendered(story)

\* C9: FETCH_STORY_IDS_SUCCESS is always directly followed by
\* FETCH_STORIES_REQUEST with page 0 and the listing just stored, and the page
\* fetch made for it is the first one, over that same listing.
C9_ListingThenFirstPage ==
    \A k \in DOMAIN log :
        log[k].type = FETCH_STORY_IDS_SUCCESS =>
            /\ k < Len(log)
            /\ log[k + 1].type = FETCH_STORIES_REQUEST
            /\ log[k + 1].payload.page = 0
            /\ log[k + 1].payload.storyIds = log[k].payload.storyIds
            /\ story.storyIds = log[k].payload.storyIds
            /\ reqs # <<>>
            /\ reqs[1].page = 0
            /\ reqs[1].storyIds = log[k].payload.storyIds

\* C9 witness: a listing of more than one page was stored and its first page asked for.
C9_Witness ==
    /\ Len(log) = 3
    /\ log[2].type = FETCH_STORY_IDS_SUCCESS
    /\ Len(story.storyIds) > PAGE_LIMIT
    /\ Len(reqs) = 1

\* Every id of the listing has its story in stories.
AllKnownIdsResolved ==
    \A k \in DOMAIN story.storyIds :
        \E i \in DOMAIN story.stories : story.stories[i].id = story.storyIds[k]

PageResolves(i) ==
    /\ i \in DOMAIN reqs
    /\ reqs[i].status = "pending"
    /\ reqs' = [reqs EXCEPT ![i].status = "resolved"]

\* seq is a prefix of longer.
IsPrefix(seq, longer) ==
    /\ Len(seq) <= Len(longer)
    /\ \A k \in DOMAIN seq : longer[k] = seq[k]

\* C11: a successful page fetch only appends: stories before it is a prefix of
\* stories after it, the stories behind that prefix are those of the ids the
\* fetch asked for, and storyIds is unchanged.
C11_SuccessOnlyAppends ==
    [][\A i \in DOMAIN reqs :
          PageResolves(i) =>
             /\ IsPrefix(story.stories, story'.stories)
             /\ Len(story'.stories) = Len(story.stories) + Len(reqs[i].ids)
             /\ story'.storyIds = story.storyIds]_vars

\* C11 witness: the second page has been appended behind a full first page.
C11_Witness ==
    /\ story.page = 2
    /\ Len(story.stories) > PAGE_LIMIT
    /\ \A k \in 1..PAGE_LIMIT : story.stories[k].id = story.storyIds[k]

\* C12: the stories appended for a page are in the order of the ids of its
\* slice whatever the order in which the detail responses arrived: the k-th
\* story dispatched and appended is the one of the k-th id.
C12_JoinedInSliceOrder ==
    [][\A i \in DOMAIN reqs :
          PageResolves(i) =>
             /\ Last(log').type = FETCH_STORIES_SUCCESS
             /\ Len(Last(log').payload.stories) = Len(reqs[i].ids)
             /\ \A k \in DOMAIN reqs[i].ids :
                   /\ Last(log').payload.stories[k] = getStory(reqs[i].ids[k])
                   /\ story'.stories[Len(story.stories) + k].id = reqs[i].ids[k]]_vars

\* C12 witness: the responses of a full page arrived last-first and the page was appended.
C12_Witness ==
    /\ Len(arrival) = PAGE_LIMIT
    /\ arrival[1] = PAGE_LIMIT
    /\ arrival[PAGE_LIMIT] = 1
    /\ Len(story.stories) >= PAGE_LIMIT
    /\ Last(log).type = FETCH_STORIES_SUCCESS

\* The page indices of the page fetches that have succeeded.
ResolvedPages == {reqs[i].page : i \in Resolved}

\* C13: with N ids stored, once k page fetches have succeeded and they are the
\* fetches of pages 0..k-1, stories holds min(20k, N) stories; when N <= 20 the
\* one fetch of page 0 resolves every id and hasMore is false.
C13_LengthAfterKPages ==
    LET k == Cardinality(Resolved)
        N == Len(story.storyIds)
    IN  (idsReq = "resolved" /\ ResolvedPages = 0..(k - 1)) =>
           /\ Len(story.stories) = Min(PAGE_LIMIT * k, N)
           /\ (N <= PAGE_LIMIT /\ k = 1) =>
                 /\ Len(story.stories) = N
                 /\ AllKnownIdsResolved
                 /\ ~hasMoreStoriesSelector(story)

\* C13 witness: pages 0, 1 and 2 of a listing of more than two pages have
\* succeeded, once each.
C13_Witness ==
    /\ Cardinality(Resolved) = 3
    /\ ResolvedPages = 0..2
    /\ Len(story.storyIds) > 2 * PAGE_LIMIT
    /\ Len(story.stories) = Len(story.storyIds)

----------------------------------------------------------------------------
(* Every request succeeds, and whatever can happen does happen *)

NextSucceed ==
    \/ Mount
    \/ IdsResolve
    \/ Render
    \/ Scroll
    \/ PageResolve

\* The mount effect runs, every request is answered, React renders a changed
\* store, and InfiniteScroll keeps calling next() while it may.
LiveSpec ==
    /\ Init
    /\ [][NextSucceed]_vars
    /\ WF_vars(Mount)
    /\ WF_vars(IdsResolve)
    /\ WF_vars(PageResolve)
    /\ WF_vars(Render)
    /\ WF_vars(Scroll)

\* The exhausted state of the paginator.
Exhausted ==
    /\ idsReq = "resolved"
    /\ Len(story.stories) = Len(story.storyIds)
    /\ ~hasMoreStoriesSelector(story)
    /\ ~story.isFetching

\* C14: when every request succeeds and the scroll trigger keeps firing, the
\* paginator eventually reaches the exhausted state: as many stories as ids,
\* hasMore false and isFetching false.
C14_EventuallyExhausted == <>Exhausted

\* A step in which the scroll handler dispatches a page fetch.
ScrollDispatches ==
    /\ Len(reqs') = Len(reqs) + 1
    /\ idsReq' = idsReq

\* C15: a scroll-triggered page fetch is dispatched only while hasMore is
\* true: never with storyIds empty and never with as many stories as ids.
C15_ScrollFetchOnlyWhileMore ==
    [][ScrollDispatches =>
          /\ hasMoreStoriesSelector(story)
          /\ story.storyIds # <<>>
          /\ Len(story.stories) # Len(story.storyIds)]_vars

\* The number of FETCH_STORY_IDS_REQUEST actions dispatched: one per invocation of fetchStoryIds.
Invocations(l) == Cardinality({k \in DOMAIN l : l[k].type = FETCH_STORY_IDS_REQUEST})

\* The action records a step has dispatched.
Dispatched == SubSeq(log', Len(log) + 1, Len(log'))

\* A request of either stage has failed.
SomeFailure == idsReq = "rejected" \/ Rejected # {}

\* C16: every invocation of fetchStoryIds makes exactly one listing request; a
\* step in which a request fails issues no request and dispatches no request
\* event, and once a request has failed a page fetch is issued only by a
\* scroll trigger and the listing is never asked for again.
C16_OneListingNoRetry ==
    [][/\ listings' = Invocations(log')
       /\ (IdsRejects \/ \E i \in DOMAIN reqs : PageRejects(i)) =>
             /\ Len(reqs') = Len(reqs)
             /\ listings' = listings
             /\ \A k \in DOMAIN Dispatched :
                   Dispatched[k].type \notin {FETCH_STORY_IDS_REQUEST, FETCH_STORIES_REQUEST}
       /\ SomeFailure =>
             /\ listings' = listings
             /\ Len(reqs') > Len(reqs) =>
                   /\ ScrollDispatches
                   /\ props.hasMoreStories
                   /\ ~props.isFetching]_vars

\* C16 witness: the one page fetch made has failed, the view is up to date and
\* nothing has been asked for since.
C16_Witness ==
    /\ listings = 1
    /\ Len(reqs) = 1
    /\ Rejected = {1}
    /\ props = Rendered(story)
    /\ Last(log).type = FETCH_STORIES_SUCCESS

\* C17: stories never holds more entries than storyIds, so hasMore is false
\* exactly when the two lengths are equal.
C17_NeverMoreStoriesThanIds ==
    /\ Len(story.stories) <= Len(story.storyIds)
    /\ ~hasMoreStoriesSelector(story) <=> (Len(story.stories) = Len(story.storyIds))

=============================================================================
